---------------------------- MODULE Spec2Model ----------------------------
(* A model of rampart: the audit / apply commands (internal/cli), the gh    *)
(* wrappers (internal/github) and the rule model (internal/config).         *)
EXTENDS Integers, Sequences, FiniteSets, TLC

(***************************************************************************)
(* Bounds of the model.                                                    *)
(***************************************************************************)
\* number of repositories the owner has on the remote
NumRepos == 2
\* longest required-checks list drawn for the Compare inputs
MaxChecks == 2
\* largest required_approvals drawn for the Compare inputs
MaxApprovals == 1

(***************************************************************************)
(* Go values.  An optional (pointer / JSON null) is the empty sequence or a *)
(* one-element sequence; a slice keeps its nil-ness beside its elements.    *)
(***************************************************************************)
Nil == <<>>
Some(x) == <<x>>

NilSlice == [isNil |-> TRUE, elems |-> <<>>]
MkSlice(s) == [isNil |-> FALSE, elems |-> s]
EmptySlice == MkSlice(<<>>)

Range(s) == {s[k] : k \in DOMAIN s}

\* config.go:17-30
Rules(rpr, ra, dsr, rcor, rsc, ssc, rc, ea, afp, ad, rlh, rcr) ==
    [RequirePullRequest |-> rpr, RequiredApprovals |-> ra,
     DismissStaleReviews |-> dsr, RequireCodeOwnerReviews |-> rcor,
     RequireStatusChecks |-> rsc, StrictStatusChecks |-> ssc,
     RequiredChecks |-> rc, EnforceAdmins |-> ea, AllowForcePushes |-> afp,
     AllowDeletions |-> ad, RequiredLinearHistory |-> rlh,
     RequiredConversationResolution |-> rcr]

\* the Go zero value Rules{}: every flag false, count 0, nil list
ZeroRules ==
    Rules(FALSE, 0, FALSE, FALSE, FALSE, FALSE, NilSlice,
          FALSE, FALSE, FALSE, FALSE, FALSE)

\* config.go:41-59
Default ==
    [Branch |-> "main",
     Rules |-> Rules(TRUE, 1, TRUE, FALSE, FALSE, TRUE, EmptySlice,
                     TRUE, FALSE, FALSE, FALSE, FALSE)]

(***************************************************************************)
(* fmt.Sprintf verbs used by Compare.                                      *)
(***************************************************************************)
\* %t
BoolStr(b) == IF b THEN "true" ELSE "false"

Digits == <<"0", "1", "2", "3", "4", "5", "6", "7", "8", "9">>

\* %d
RECURSIVE IntStr(_)
IntStr(n) ==
    IF n < 0 THEN "-" \o IntStr(-n)
    ELSE IF n < 10 THEN Digits[n + 1]
    ELSE IntStr(n \div 10) \o Digits[(n % 10) + 1]

RECURSIVE JoinSp(_)
JoinSp(s) ==
    IF s = <<>> THEN ""
    ELSE IF Len(s) = 1 THEN s[1]
    ELSE s[1] \o " " \o JoinSp(Tail(s))

\* %v of a []string (a nil slice prints as an empty one)
SliceStr(sl) == "[" \o JoinSp(sl.elems) \o "]"

(***************************************************************************)
(* config.Compare                                                          *)
(***************************************************************************)
RuleDiff(rule, pass, want, got) ==
    [Rule |-> rule, Pass |-> pass, Want |-> want, Got |-> got]

\* config.go:202-204
addBoolDiff(rule, want, got) ==
    RuleDiff(rule, want = got, BoolStr(want), BoolStr(got))

\* config.go:222-234: equal lengths and every actual name in the desired set
ChecksMatch(d, a) ==
    /\ Len(d.elems) = Len(a.elems)
    /\ \A k \in DOMAIN a.elems : a.elems[k] \in Range(d.elems)

\* a variant that emits the review diffs whether or not pull requests are
\* required
PullRequestDiffsAlways(desired, actual) ==
    <<addBoolDiff("require_pull_request",
                  desired.RequirePullRequest, actual.RequirePullRequest),
      RuleDiff("required_approvals",
               desired.RequiredApprovals = actual.RequiredApprovals,
               IntStr(desired.RequiredApprovals),
               IntStr(actual.RequiredApprovals)),
      addBoolDiff("dismiss_stale_reviews",
                  desired.DismissStaleReviews, actual.DismissStaleReviews),
      addBoolDiff("require_code_owner_reviews",
                  desired.RequireCodeOwnerReviews,
                  actual.RequireCodeOwnerReviews)>>

\* config.go:207-215
PullRequestDiffs(desired, actual) ==
    <<addBoolDiff("require_pull_request",
                  desired.RequirePullRequest, actual.RequirePullRequest)>>
    \o (IF desired.RequirePullRequest
        THEN <<RuleDiff("required_approvals",
                        desired.RequiredApprovals = actual.RequiredApprovals,
                        IntStr(desired.RequiredApprovals),
                        IntStr(actual.RequiredApprovals)),
               addBoolDiff("dismiss_stale_reviews",
                           desired.DismissStaleReviews,
                           actual.DismissStaleReviews),
               addBoolDiff("require_code_owner_reviews",
                           desired.RequireCodeOwnerReviews,
                           actual.RequireCodeOwnerReviews)>>
        ELSE <<>>)

\* config.go:218-238
StatusCheckDiffs(desired, actual) ==
    <<addBoolDiff("require_status_checks",
                  desired.RequireStatusChecks, actual.RequireStatusChecks)>>
    \o (IF desired.RequireStatusChecks
        THEN <<addBoolDiff("strict_status_checks",
                           desired.StrictStatusChecks,
                           actual.StrictStatusChecks),
               RuleDiff("required_checks",
                        ChecksMatch(desired.RequiredChecks,
                                    actual.RequiredChecks),
                        SliceStr(desired.RequiredChecks),
                        SliceStr(actual.RequiredChecks))>>
        ELSE <<>>)

\* config.go:241-245
OtherDiffs(desired, actual) ==
    <<addBoolDiff("enforce_admins",
                  desired.EnforceAdmins, actual.EnforceAdmins),
      addBoolDiff("allow_force_pushes",
                  desired.AllowForcePushes, actual.AllowForcePushes),
      addBoolDiff("allow_deletions",
                  desired.AllowDeletions, actual.AllowDeletions),
      addBoolDiff("required_linear_history",
                  desired.RequiredLinearHistory, actual.RequiredLinearHistory),
      addBoolDiff("required_conversation_resolution",
                  desired.RequiredConversationResolution,
                  actual.RequiredConversationResolution)>>

\* a variant that appends the status-check diffs last
CompareStatusChecksLast(desired, actual) ==
    PullRequestDiffs(desired, actual)
    \o OtherDiffs(desired, actual)
    \o StatusCheckDiffs(desired, actual)

\* config.go:195-248
Compare(desired, actual) ==
    PullRequestDiffs(desired, actual)
    \o StatusCheckDiffs(desired, actual)
    \o OtherDiffs(desired, actual)

(***************************************************************************)
(* config.ToAPIPayload, config.RulesFromResponse                           *)
(***************************************************************************)
RECURSIVE ContextObjects(_)
\* config.go:121-124
ContextObjects(s) ==
    IF s = <<>> THEN <<>>
    ELSE <<[context |-> s[1]]>> \o ContextObjects(Tail(s))

\* a variant that leaves require_code_owner_reviews out of the review
\* object, so that the remote takes it as false
ToAPIPayloadNoCodeOwner(r) ==
    [enforce_admins |-> r.EnforceAdmins,
     allow_force_pushes |-> r.AllowForcePushes,
     allow_deletions |-> r.AllowDeletions,
     required_linear_history |-> r.RequiredLinearHistory,
     required_conversation_resolution |-> r.RequiredConversationResolution,
     restrictions |-> Nil,
     required_pull_request_reviews |->
        IF r.RequirePullRequest
        THEN Some([required_approving_review_count |-> r.RequiredApprovals,
                   dismiss_stale_reviews |-> r.DismissStaleReviews,
                   require_code_owner_reviews |-> FALSE])
        ELSE Nil,
     required_status_checks |->
        IF r.RequireStatusChecks
        THEN Some([strict |-> r.StrictStatusChecks,
                   contexts |-> r.RequiredChecks,
                   checks |-> ContextObjects(r.RequiredChecks.elems)])
        ELSE Nil]

\* config.go:99-135
ToAPIPayload(r) ==
    [enforce_admins |-> r.EnforceAdmins,
     allow_force_pushes |-> r.AllowForcePushes,
     allow_deletions |-> r.AllowDeletions,
     required_linear_history |-> r.RequiredLinearHistory,
     required_conversation_resolution |-> r.RequiredConversationResolution,
     restrictions |-> Nil,
     required_pull_request_reviews |->
        IF r.RequirePullRequest
        THEN Some([required_approving_review_count |-> r.RequiredApprovals,
                   dismiss_stale_reviews |-> r.DismissStaleReviews,
                   require_code_owner_reviews |-> r.RequireCodeOwnerReviews])
        ELSE Nil,
     required_status_checks |->
        IF r.RequireStatusChecks
        THEN Some([strict |-> r.StrictStatusChecks,
                   contexts |-> r.RequiredChecks,
                   checks |-> ContextObjects(r.RequiredChecks.elems)])
        ELSE Nil]

\* config.go:138-163
ProtectionResponse(prr, rsc, ea, afp, ad, rlh, rcr) ==
    [RequiredPullRequestReviews |-> prr,
     RequiredStatusChecks |-> rsc,
     EnforceAdmins |-> [Enabled |-> ea],
     AllowForcePushes |-> [Enabled |-> afp],
     AllowDeletions |-> [Enabled |-> ad],
     RequiredLinearHistory |-> [Enabled |-> rlh],
     RequiredConversationResolution |-> [Enabled |-> rcr]]

\* a variant without the []string{} initialisation of RequiredChecks
RulesFromResponseNilChecks(resp) ==
    LET prr == resp.RequiredPullRequestReviews
        rsc == resp.RequiredStatusChecks
    IN  [RequirePullRequest |-> prr # Nil,
         RequiredApprovals |->
            IF prr # Nil THEN prr[1].RequiredApprovingReviewCount ELSE 0,
         DismissStaleReviews |->
            IF prr # Nil THEN prr[1].DismissStaleReviews ELSE FALSE,
         RequireCodeOwnerReviews |->
            IF prr # Nil THEN prr[1].RequireCodeOwnerReviews ELSE FALSE,
         RequireStatusChecks |-> rsc # Nil,
         StrictStatusChecks |-> IF rsc # Nil THEN rsc[1].Strict ELSE FALSE,
         RequiredChecks |->
            IF rsc # Nil /\ ~rsc[1].Contexts.isNil
            THEN rsc[1].Contexts ELSE NilSlice,
         EnforceAdmins |-> resp.EnforceAdmins.Enabled,
         AllowForcePushes |-> resp.AllowForcePushes.Enabled,
         AllowDeletions |-> resp.AllowDeletions.Enabled,
         RequiredLinearHistory |-> resp.RequiredLinearHistory.Enabled,
         RequiredConversationResolution |->
            resp.RequiredConversationResolution.Enabled]

\* config.go:166-192
RulesFromResponse(resp) ==
    LET prr == resp.RequiredPullRequestReviews
        rsc == resp.RequiredStatusChecks
    IN  [RequirePullRequest |-> prr # Nil,
         RequiredApprovals |->
            IF prr # Nil THEN prr[1].RequiredApprovingReviewCount ELSE 0,
         DismissStaleReviews |->
            IF prr # Nil THEN prr[1].DismissStaleReviews ELSE FALSE,
         RequireCodeOwnerReviews |->
            IF prr # Nil THEN prr[1].RequireCodeOwnerReviews ELSE FALSE,
         RequireStatusChecks |-> rsc # Nil,
         StrictStatusChecks |-> IF rsc # Nil THEN rsc[1].Strict ELSE FALSE,
         RequiredChecks |->
            IF rsc # Nil /\ ~rsc[1].Contexts.isNil
            THEN rsc[1].Contexts ELSE EmptySlice,
         EnforceAdmins |-> resp.EnforceAdmins.Enabled,
         AllowForcePushes |-> resp.AllowForcePushes.Enabled,
         AllowDeletions |-> resp.AllowDeletions.Enabled,
         RequiredLinearHistory |-> resp.RequiredLinearHistory.Enabled,
         RequiredConversationResolution |->
            resp.RequiredConversationResolution.Enabled]


(***************************************************************************)
(* The remote side: what gh prints for the protection endpoint, and what   *)
(* the remote stores on a PUT.                                             *)
(***************************************************************************)
\* strings.Contains
Contains(s, sub) ==
    \E k \in 1..(Len(s) - Len(sub) + 1) : SubSeq(s, k, k + Len(sub) - 1) = sub

\* the result of one exec of gh (repos.go:106-107, 156-161): how the process
\* ended ("exit0", "exit1", or "norun" when gh could not be started), its
\* stdout parsed as JSON (Nil when it does not parse) and its stderr
GhResult(how, body, stderr) == [how |-> how, body |-> body, stderr |-> stderr]

StderrNotProtected == "gh: Branch not protected (HTTP 404)"
StderrBranchNotFound == "gh: Branch not found (HTTP 404)"
StderrForbidden == "gh: Must have admin rights to Repository. (HTTP 403)"
StderrServerError == "gh: Server Error (HTTP 500)"

\* the response the remote serves after a PUT of `payload`
StoredProtection(payload) ==
    LET prr == payload.required_pull_request_reviews
        rsc == payload.required_status_checks
    IN  ProtectionResponse(
            IF prr = Nil THEN Nil
            ELSE Some([RequiredApprovingReviewCount |->
                           prr[1].required_approving_review_count,
                       DismissStaleReviews |-> prr[1].dismiss_stale_reviews,
                       RequireCodeOwnerReviews |->
                           prr[1].require_code_owner_reviews]),
            IF rsc = Nil THEN Nil
            ELSE Some([Strict |-> rsc[1].strict,
                       Contexts |-> MkSlice(rsc[1].contexts.elems)]),
            payload.enforce_admins, payload.allow_force_pushes,
            payload.allow_deletions, payload.required_linear_history,
            payload.required_conversation_resolution)

(***************************************************************************)
(* github.GetBranchProtection: the classification of one gh result.        *)
(* err is Nil or Some(message).                                            *)
(***************************************************************************)
FetchResult(rules, ok, err) == [rules |-> rules, ok |-> ok, err |-> err]

Is404(stderr) ==
    \/ Contains(stderr, "404")
    \/ Contains(stderr, "Not Found")
    \/ Contains(stderr, "Branch not protected")

Is403(stderr) ==
    Contains(stderr, "403") \/ Contains(stderr, "Must have admin")

\* a variant that reports an unprotected branch as a permission failure
GetBranchProtection404AsDenied(gh) ==
    IF gh.how = "norun"
    THEN FetchResult(ZeroRules, FALSE, Some("failed to run gh: exec error"))
    ELSE IF gh.how = "exit1"
    THEN IF Is404(gh.stderr) \/ Is403(gh.stderr)
         THEN FetchResult(ZeroRules, FALSE, Some("insufficient permissions"))
         ELSE FetchResult(ZeroRules, FALSE,
                          Some("gh api failed: " \o gh.stderr))
    ELSE IF gh.body = Nil
    THEN FetchResult(ZeroRules, FALSE,
                     Some("failed to parse protection response: bad json"))
    ELSE FetchResult(RulesFromResponse(gh.body[1]), TRUE, Nil)

\* repos.go:104-131
GetBranchProtection(gh) ==
    IF gh.how = "norun"
    THEN FetchResult(ZeroRules, FALSE, Some("failed to run gh: exec error"))
    ELSE IF gh.how = "exit1"
    THEN IF Is404(gh.stderr)
         THEN FetchResult([ZeroRules EXCEPT !.RequiredChecks = EmptySlice],
                          TRUE, Nil)
         ELSE IF Is403(gh.stderr)
         THEN FetchResult(ZeroRules, FALSE, Some("insufficient permissions"))
         ELSE FetchResult(ZeroRules, FALSE,
                          Some("gh api failed: " \o gh.stderr))
    ELSE IF gh.body = Nil
    THEN FetchResult(ZeroRules, FALSE,
                     Some("failed to parse protection response: bad json"))
    ELSE FetchResult(RulesFromResponse(gh.body[1]), TRUE, Nil)

(***************************************************************************)
(* cli: the audit engine                                                   *)
(***************************************************************************)
\* repos.go:13-18
Repo(name, fork, archived, branch) ==
    [Name |-> name, Fork |-> fork, Archived |-> archived,
     DefaultBranch |-> branch]

\* root.go:71-77
RepoAuditResult(repo, compliant, ds, err, skipped) ==
    [Repo |-> repo, Compliant |-> compliant, Diffs |-> ds, Error |-> err,
     Skipped |-> skipped]

\* config.go:62-81; Nil when the file cannot be read or parsed
Load(file) ==
    IF file = Nil THEN Nil
    ELSE Some([Branch |-> IF file[1].Branch = "" THEN "main"
                          ELSE file[1].Branch,
               Rules |-> IF file[1].Rules.RequiredChecks.isNil
                         THEN [file[1].Rules EXCEPT
                                   !.RequiredChecks = EmptySlice]
                         ELSE file[1].Rules])

\* a variant that keeps forks and archived repositories
FilterReposKeepAll(rs) == rs

RECURSIVE FilterRepos(_)
\* repos.go:53-61
FilterRepos(rs) ==
    IF rs = <<>> THEN <<>>
    ELSE (IF ~rs[1].Fork /\ ~rs[1].Archived THEN <<rs[1]>> ELSE <<>>)
         \o FilterRepos(Tail(rs))

\* a variant that never matches the exclude list
IsExcludedNever(excl, name) == FALSE

\* root.go:169-172, 178
IsExcluded(excl, name) == name \in excl

\* root.go:205-211
AllPass(ds) == \A k \in DOMAIN ds : ds[k].Pass

\* root.go:204-217
ComparedResult(name, desiredRules, fetch) ==
    LET ds == Compare(desiredRules, fetch.rules)
    IN  RepoAuditResult(name, AllPass(ds), ds, "", FALSE)

\* root.go:187-217: the result for a repository that is not excluded
FetchedResult(name, desiredRules, fetch) ==
    IF fetch.err # Nil
    THEN RepoAuditResult(name, FALSE, <<>>, fetch.err[1], FALSE)
    ELSE IF ~fetch.ok
    THEN RepoAuditResult(name, FALSE, <<>>, "insufficient permissions", TRUE)
    ELSE ComparedResult(name, desiredRules, fetch)

\* root.go:179-183
ExcludedResult(name) == RepoAuditResult(name, FALSE, <<>>, "excluded", TRUE)

\* a variant that leaves the loop at the first fetch error
BreakOnError(k, n, res) ==
    IF res.Error # "" /\ ~res.Skipped THEN n + 1 ELSE k + 1

\* root.go:177, 184, 193, 201, 218: every path of the loop body goes on to
\* the next repository
ContinueAt(k, n, res) == k + 1


(***************************************************************************)
(* cli: what the two commands compute from the audit results               *)
(***************************************************************************)
\* the number of TRUE entries of a sequence of booleans
CountTrue(bs) == Cardinality({k \in DOMAIN bs : bs[k]})

\* root.go:103
IsSkipped(r) == r.Skipped

\* root.go:102-123: the results that increment nonCompliant
CountsNonCompliant(r) ==
    /\ ~r.Skipped
    /\ (r.Error # "" \/ ~r.Compliant)

\* root.go:101-136
AuditSummary(rs) ==
    LET nonCompliant ==
            CountTrue([n \in DOMAIN rs |-> CountsNonCompliant(rs[n])])
        skipped == CountTrue([n \in DOMAIN rs |-> IsSkipped(rs[n])])
    IN  [compliant |-> Len(rs) - nonCompliant - skipped,
         nonCompliant |-> nonCompliant,
         skipped |-> skipped,
         total |-> Len(rs)]

\* a variant that does not look at the dry-run flag
SendsUpdateAlways(dry) == TRUE

\* apply.go:49, 56
SendsUpdate(dry) == ~dry

\* a variant that also selects the repositories whose fetch failed
NeedsUpdateWithErrors(r) == ~r.Compliant /\ ~r.Skipped

\* apply.go:34
NeedsUpdate(r) == ~r.Compliant /\ ~r.Skipped /\ r.Error = ""

RECURSIVE SelectToUpdate(_)
\* apply.go:32-37
SelectToUpdate(rs) ==
    IF rs = <<>> THEN <<>>
    ELSE (IF NeedsUpdate(rs[1]) THEN <<rs[1]>> ELSE <<>>)
         \o SelectToUpdate(Tail(rs))

\* a variant that stops at the first failed update
AfterUpdateStopOnFailure(k, n, ok) == IF ok THEN k + 1 ELSE n + 1

\* apply.go:48, 59-66: a failed update is counted and the loop goes on
AfterUpdate(k, n, ok) == k + 1

(***************************************************************************)
(* State                                                                   *)
(***************************************************************************)
VARIABLES
    cmd,          \* "audit" or "apply": the subcommand run
    dryRun,       \* --dry-run
    repoFlag,     \* --repo ("" when not given)
    exclude,      \* --exclude, as the set of names given
    configFile,   \* the parsed YAML of --config, Nil when unreadable
    listing,      \* the remote: the owner's repositories, as gh lists them
    protection,   \* the remote: protection of each repository's default branch
    protection0,  \* the remote protection when the command started
    pc,           \* where the command is
    cfg,          \* auditRepos: the loaded Config
    repos,        \* auditRepos: the repositories to audit
    i,            \* auditRepos: index of the next repository of the loop
    results,      \* auditRepos: the results so far
    reads,        \* protection reads issued, each with what gh answered
    writes,       \* SetBranchProtection calls made
    toUpdate,     \* apply: the results selected for an update
    j,            \* apply: index of the next entry of toUpdate
    updated,      \* apply: counter
    failed,       \* apply: counter
    summary,      \* the numbers of the final "Results:" line
    exitCode,     \* process exit code, -1 while running
    cmpDesired,   \* Compare's first argument (comparison runs)
    cmpActual,    \* Compare's second argument (comparison runs)
    cmpDiffs,     \* Compare's return value (comparison runs)
    rtPayload,    \* the payload of a PUT, Nil before it (round-trip runs)
    rtStored      \* what the remote serves after it, Nil before it

vars ==
    <<cmd, dryRun, repoFlag, exclude, configFile, listing, protection,
      protection0, pc, cfg, repos, i, results, reads, writes, toUpdate, j,
      updated, failed, summary, exitCode, cmpDesired, cmpActual, cmpDiffs,
      rtPayload, rtStored>>

inputVars ==
    <<cmd, dryRun, repoFlag, exclude, configFile, listing, protection0>>
auditVars == <<cfg, repos, i, results, reads>>
applyVars == <<toUpdate, j, updated, failed, writes, protection>>
cmpVars == <<cmpDesired, cmpActual, cmpDiffs, rtPayload, rtStored>>

(***************************************************************************)
(* The inputs of a run                                                     *)
(***************************************************************************)
RepoName(k) == "r" \o IntStr(k)
RepoNames == {RepoName(k) : k \in 1..NumRepos}

\* the default branch the remote gives the k-th repository
DefaultBranchOf(k) == IF k % 2 = 1 THEN "main" ELSE "master"

\* the remote's listings: the repositories in a fixed order, each one a fork
\* or not, archived or not
Listings ==
    {l \in [1..NumRepos -> [Name : RepoNames, Fork : BOOLEAN,
                            Archived : BOOLEAN,
                            DefaultBranch : {"main", "master"}]] :
        \A k \in 1..NumRepos :
            /\ l[k].Name = RepoName(k)
            /\ l[k].DefaultBranch = DefaultBranchOf(k)}

\* policies a config file may hold
PolicyPR == Default.Rules
PolicyChecks ==
    Rules(FALSE, 0, FALSE, FALSE, TRUE, TRUE, MkSlice(<<"ci", "lint">>),
          TRUE, FALSE, FALSE, TRUE, FALSE)
PolicyNone == ZeroRules

ConfigFiles ==
    {Nil,
     Some([Branch |-> "default", Rules |-> PolicyChecks]),
     Some([Branch |-> "main", Rules |-> PolicyPR]),
     Some([Branch |-> "", Rules |-> PolicyNone])}

\* protection states a repository may start in: none, or the one a PUT of
\* the default policy leaves
Protections == {Nil, Some(StoredProtection(ToAPIPayload(PolicyPR)))}

\* the remote's default branch of a repository
RemoteBranch(name) ==
    listing[CHOOSE k \in DOMAIN listing : listing[k].Name = name]
        .DefaultBranch


(***************************************************************************)
(* What gh can answer                                                      *)
(***************************************************************************)
\* the answer the remote's state gives to a protection read of `branch`
NaturalRead(name, branch) ==
    IF branch # RemoteBranch(name)
    THEN GhResult("exit1", Nil, StderrBranchNotFound)
    ELSE IF protection[name] = Nil
    THEN GhResult("exit1", Nil, StderrNotProtected)
    ELSE GhResult("exit0", protection[name], "")

\* every way the exec of gh for a protection read can end
ReadOutcomes(name, branch) ==
    {NaturalRead(name, branch),
     GhResult("exit1", Nil, StderrForbidden),
     GhResult("exit1", Nil, StderrServerError),
     GhResult("exit0", Nil, ""),
     GhResult("norun", Nil, "")}

\* every way SetBranchProtection can end: "ok", "rejected" (gh ran and
\* failed), "local" (the payload never left: temp file or exec failure).
\* The remote accepts a PUT only for a branch the repository has.
WriteOutcomes(name, branch) ==
    {"rejected", "local"}
    \cup (IF branch = RemoteBranch(name) THEN {"ok"} ELSE {})

\* apply.go:58 passes r.Branch, a field root.go:71-77 does not declare and
\* root.go:176-218 never assigns: the values it may hold
ResultBranch(name) == {"", cfg.Branch, RemoteBranch(name)}

NoSummary == [kind |-> "none"]

\* root.go:54-57: what exitWithError prints before os.Exit(1)
Fatal(msg) == [kind |-> "fatal", msg |-> msg]

\* the Go zero value Config{} (root.go:152-153, before Load returns)
ZeroConfig == [Branch |-> "", Rules |-> ZeroRules]

(***************************************************************************)
(* Init                                                                    *)
(***************************************************************************)
Idle ==
    /\ cfg = ZeroConfig
    /\ repos = <<>>
    /\ i = 1
    /\ results = <<>>
    /\ reads = <<>>
    /\ writes = <<>>
    /\ toUpdate = <<>>
    /\ j = 1
    /\ updated = 0
    /\ failed = 0
    /\ summary = NoSummary
    /\ exitCode = -1

NoCompare ==
    /\ cmpDesired = ZeroRules
    /\ cmpActual = ZeroRules
    /\ cmpDiffs = <<>>
    /\ rtPayload = Nil
    /\ rtStored = Nil

Init ==
    /\ cmd \in {"audit", "apply"}
    /\ dryRun \in (IF cmd = "apply" THEN BOOLEAN ELSE {FALSE})
    /\ repoFlag \in {""} \cup RepoNames
    /\ exclude \in SUBSET RepoNames
    /\ configFile \in ConfigFiles
    /\ listing \in Listings
    /\ protection \in [RepoNames -> Protections]
    /\ protection0 = protection
    /\ pc = "start"
    /\ Idle
    /\ NoCompare

(***************************************************************************)
(* auditRepos                                                              *)
(***************************************************************************)
\* root.go:89-96 with repos.go:21-39 (apply.go:21-27): --owner is not given
\* and gh cannot name the current user, exitWithError
AuthError ==
    /\ pc = "start"
    /\ pc' = "done"
    /\ exitCode' = 1
    /\ summary' = Fatal("not authenticated with GitHub CLI")
    /\ UNCHANGED <<inputVars, auditVars, applyVars, cmpVars>>

\* root.go:153-156: the config does not load, exitWithError
ConfigError ==
    /\ pc = "start"
    /\ Load(configFile) = Nil
    /\ pc' = "done"
    /\ exitCode' = 1
    /\ summary' = Fatal("failed to read config")
    /\ UNCHANGED <<inputVars, auditVars, applyVars, cmpVars>>

\* root.go:153-160, 169-176: --repo given
StartSingle ==
    /\ pc = "start"
    /\ Load(configFile) # Nil
    /\ repoFlag # ""
    /\ cfg' = Load(configFile)[1]
    /\ repos' = <<Repo(repoFlag, FALSE, FALSE, "")>>
    /\ i' = 1
    /\ results' = <<>>
    /\ pc' = "audit"
    /\ UNCHANGED <<inputVars, reads, applyVars, summary, exitCode, cmpVars>>

\* root.go:153-176 with repos.go:42-62: the owner's repositories are listed
StartList ==
    /\ pc = "start"
    /\ Load(configFile) # Nil
    /\ repoFlag = ""
    /\ cfg' = Load(configFile)[1]
    /\ repos' = FilterRepos(listing)
    /\ i' = 1
    /\ results' = <<>>
    /\ pc' = "audit"
    /\ UNCHANGED <<inputVars, reads, applyVars, summary, exitCode, cmpVars>>

\* root.go:163-166 with repos.go:44-50: both listings fail, exitWithError
ListError ==
    /\ pc = "start"
    /\ Load(configFile) # Nil
    /\ repoFlag = ""
    /\ cfg' = Load(configFile)[1]
    /\ pc' = "done"
    /\ exitCode' = 1
    /\ summary' = Fatal("failed to list repos")
    /\ UNCHANGED <<inputVars, repos, i, results, reads, applyVars, cmpVars>>

\* root.go:178-185: one iteration of the loop, for an excluded repository
AuditExcluded ==
    /\ pc = "audit"
    /\ i <= Len(repos)
    /\ IsExcluded(exclude, repos[i].Name)
    /\ LET res == ExcludedResult(repos[i].Name)
       IN  /\ results' = Append(results, res)
           /\ i' = ContinueAt(i, Len(repos), res)
    /\ UNCHANGED <<inputVars, pc, cfg, repos, reads, applyVars, summary,
                   exitCode, cmpVars>>

\* root.go:178, 187-218: one iteration of the loop, with a protection read
AuditFetched ==
    /\ pc = "audit"
    /\ i <= Len(repos)
    /\ ~IsExcluded(exclude, repos[i].Name)
    /\ \E gh \in ReadOutcomes(repos[i].Name, cfg.Branch) :
         LET res == FetchedResult(repos[i].Name, cfg.Rules,
                                  GetBranchProtection(gh))
         IN  /\ results' = Append(results, res)
             /\ i' = ContinueAt(i, Len(repos), res)
             /\ reads' = Append(reads, [repo |-> repos[i].Name,
                                        branch |-> cfg.Branch, gh |-> gh])
    /\ UNCHANGED <<inputVars, pc, cfg, repos, applyVars, summary, exitCode,
                   cmpVars>>

(***************************************************************************)
(* auditCmd.Run                                                            *)
(***************************************************************************)
\* root.go:98-140: the results are printed and counted, the process exits
AuditReport ==
    /\ pc = "audit"
    /\ i > Len(repos)
    /\ cmd = "audit"
    /\ summary' = [kind |-> "audit"] @@ AuditSummary(results)
    /\ exitCode' = IF AuditSummary(results).nonCompliant > 0 THEN 1 ELSE 0
    /\ pc' = "done"
    /\ UNCHANGED <<inputVars, auditVars, applyVars, cmpVars>>

(***************************************************************************)
(* applyCmd.Run                                                            *)
(***************************************************************************)
\* apply.go:29-46
ApplySelect ==
    /\ pc = "audit"
    /\ i > Len(repos)
    /\ cmd = "apply"
    /\ toUpdate' = SelectToUpdate(results)
    /\ j' = 1
    /\ updated' = 0
    /\ failed' = 0
    /\ IF SelectToUpdate(results) = <<>>
       THEN /\ pc' = "done"
            /\ exitCode' = 0
            /\ summary' = [kind |-> "nothing"]
       ELSE /\ pc' = "apply"
            /\ UNCHANGED <<exitCode, summary>>
    /\ UNCHANGED <<inputVars, auditVars, writes, protection, cmpVars>>

\* apply.go:48-55: one iteration of the loop under --dry-run
ApplyDryRun ==
    /\ pc = "apply"
    /\ j <= Len(toUpdate)
    /\ ~SendsUpdate(dryRun)
    /\ j' = j + 1
    /\ UNCHANGED <<inputVars, pc, auditVars, toUpdate, updated, failed,
                   writes, protection, summary, exitCode, cmpVars>>

\* apply.go:48, 56-66 with repos.go:134-170: one iteration of the loop
ApplyUpdate ==
    /\ pc = "apply"
    /\ j <= Len(toUpdate)
    /\ SendsUpdate(dryRun)
    /\ \E branch \in ResultBranch(toUpdate[j].Repo) :
       \E out \in WriteOutcomes(toUpdate[j].Repo, branch) :
         /\ writes' = Append(writes,
                [repo |-> toUpdate[j].Repo, branch |-> branch,
                 payload |-> ToAPIPayload(cfg.Rules), out |-> out])
         /\ protection' =
                IF out = "ok"
                THEN [protection EXCEPT ![toUpdate[j].Repo] =
                         Some(StoredProtection(ToAPIPayload(cfg.Rules)))]
                ELSE protection
         /\ updated' = IF out = "ok" THEN updated + 1 ELSE updated
         /\ failed' = IF out = "ok" THEN failed ELSE failed + 1
         /\ j' = AfterUpdate(j, Len(toUpdate), out = "ok")
    /\ UNCHANGED <<inputVars, pc, auditVars, toUpdate, summary, exitCode,
                   cmpVars>>

\* apply.go:69-81
ApplyFinish ==
    /\ pc = "apply"
    /\ j > Len(toUpdate)
    /\ summary' =
          IF dryRun
          THEN [kind |-> "dry-run", wouldUpdate |-> Len(toUpdate)]
          ELSE [kind |-> "apply", updated |-> updated, failed |-> failed,
                skipped |-> CountTrue([n \in DOMAIN results |->
                                          IsSkipped(results[n])])]
    /\ exitCode' = 0
    /\ pc' = "done"
    /\ UNCHANGED <<inputVars, auditVars, applyVars, cmpVars>>

Next ==
    \/ AuthError
    \/ ConfigError
    \/ StartSingle
    \/ StartList
    \/ ListError
    \/ AuditExcluded
    \/ AuditFetched
    \/ AuditReport
    \/ ApplySelect
    \/ ApplyDryRun
    \/ ApplyUpdate
    \/ ApplyFinish

Spec == Init /\ [][Next]_vars


(***************************************************************************)
(* Comparison runs: Compare applied to drawn pairs of Rules.               *)
(***************************************************************************)
CheckNames == {"a", "b"}

\* every list of check names of at most MaxChecks entries, and the nil list
CheckLists ==
    {NilSlice} \cup
    UNION {{MkSlice(s) : s \in [1..n -> CheckNames]} : n \in 0..MaxChecks}

CmpRules ==
    {Rules(rpr, ra, dsr, rcor, rsc, TRUE, rc, ea, FALSE, FALSE, FALSE, FALSE) :
        rpr \in BOOLEAN, ra \in 0..MaxApprovals, dsr \in BOOLEAN,
        rcor \in BOOLEAN, rsc \in BOOLEAN, rc \in CheckLists,
        ea \in BOOLEAN}

\* the actual side: the same, with admin enforcement off
CmpActuals == {r \in CmpRules : ~r.EnforceAdmins}

InitCompare ==
    /\ cmd = "audit"
    /\ dryRun = FALSE
    /\ repoFlag = ""
    /\ exclude = {}
    /\ configFile = Nil
    /\ listing = <<>>
    /\ protection = <<>>
    /\ protection0 = <<>>
    /\ pc = "compare"
    /\ Idle
    /\ cmpDesired \in CmpRules
    /\ cmpActual \in CmpActuals
    /\ cmpDiffs = <<>>
    /\ rtPayload = Nil
    /\ rtStored = Nil

\* config.go:195-248: one call of Compare
DoCompare ==
    /\ pc = "compare"
    /\ cmpDiffs' = Compare(cmpDesired, cmpActual)
    /\ pc' = "compared"
    /\ UNCHANGED <<inputVars, auditVars, applyVars, summary, exitCode,
                   cmpDesired, cmpActual, rtPayload, rtStored>>

NextCompare == DoCompare

SpecCompare == InitCompare /\ [][NextCompare]_vars


(***************************************************************************)
(* Round-trip runs: a Rules value is sent by SetBranchProtection, stored by *)
(* the remote, read back by GetBranchProtection and audited again.         *)
(***************************************************************************)
RtRules ==
    {Rules(rpr, ra, dsr, rcor, rsc, ssc, rc, ea, afp, ad, rlh, rcr) :
        rpr \in BOOLEAN, ra \in 0..MaxApprovals, dsr \in BOOLEAN,
        rcor \in BOOLEAN, rsc \in BOOLEAN, ssc \in BOOLEAN,
        rc \in CheckLists, ea \in BOOLEAN, afp \in BOOLEAN, ad \in BOOLEAN,
        rlh \in BOOLEAN, rcr \in BOOLEAN}

\* the response of a remote that keeps a null contexts as null
StoredProtectionVerbatim(payload) ==
    LET rsc == payload.required_status_checks
        kept == StoredProtection(payload)
    IN  IF rsc = Nil THEN kept
        ELSE [kept EXCEPT !.RequiredStatusChecks =
                 Some([Strict |-> rsc[1].strict,
                       Contexts |-> rsc[1].contexts])]

InitRoundTrip ==
    /\ cmd = "apply"
    /\ dryRun = FALSE
    /\ repoFlag = ""
    /\ exclude = {}
    /\ configFile = Nil
    /\ listing = <<>>
    /\ protection = <<>>
    /\ protection0 = <<>>
    /\ pc = "rt_start"
    /\ Idle
    /\ cmpDesired \in RtRules
    /\ cmpActual = ZeroRules
    /\ cmpDiffs = <<>>
    /\ rtPayload = Nil
    /\ rtStored = Nil

\* repos.go:134-135: the payload of the PUT
RtPayload ==
    /\ pc = "rt_start"
    /\ rtPayload' = Some(ToAPIPayload(cmpDesired))
    /\ pc' = "rt_sent"
    /\ UNCHANGED <<inputVars, auditVars, applyVars, summary, exitCode,
                   cmpDesired, cmpActual, cmpDiffs, rtStored>>

\* repos.go:155-161: the PUT succeeds and the remote stores what was sent
RtStore ==
    /\ pc = "rt_sent"
    /\ rtStored' \in {Some(StoredProtection(rtPayload[1])),
                      Some(StoredProtectionVerbatim(rtPayload[1]))}
    /\ pc' = "rt_stored"
    /\ UNCHANGED <<inputVars, auditVars, applyVars, summary, exitCode,
                   cmpDesired, cmpActual, cmpDiffs, rtPayload>>

\* repos.go:125-130: the next protection read parses the stored response
RtRead ==
    /\ pc = "rt_stored"
    /\ cmpActual' = RulesFromResponse(rtStored[1])
    /\ pc' = "rt_read"
    /\ UNCHANGED <<inputVars, auditVars, applyVars, summary, exitCode,
                   cmpDesired, cmpDiffs, rtPayload, rtStored>>

\* root.go:204-217 and apply.go:32-37: the next audit of the repository and
\* the next apply's selection
RtAudit ==
    /\ pc = "rt_read"
    /\ cmpDiffs' = Compare(cmpDesired, cmpActual)
    /\ results' = <<ComparedResult(RepoName(1), cmpDesired,
                                   FetchResult(cmpActual, TRUE, Nil))>>
    /\ toUpdate' = SelectToUpdate(results')
    /\ pc' = "rt_done"
    /\ UNCHANGED <<inputVars, cfg, repos, i, reads, j, updated, failed,
                   writes, protection, summary, exitCode, cmpDesired,
                   cmpActual, rtPayload, rtStored>>

NextRoundTrip ==
    \/ RtPayload
    \/ RtStore
    \/ RtRead
    \/ RtAudit

SpecRoundTrip == InitRoundTrip /\ [][NextRoundTrip]_vars

(***************************************************************************)
(* Properties.  The remote's answers are named by what the remote said    *)
(* (its HTTP status), not by how the program classified them.              *)
(***************************************************************************)
HasRead(name) == \E k \in DOMAIN reads : reads[k].repo = name
ReadOf(name) == reads[CHOOSE k \in DOMAIN reads : reads[k].repo = name]

RespNotFound(gh) ==
    gh.how = "exit1" /\ gh.stderr \in {StderrNotProtected, StderrBranchNotFound}
RespForbidden(gh) == gh.how = "exit1" /\ gh.stderr = StderrForbidden
RespOk(gh) == gh.how = "exit0" /\ gh.body # Nil

DeniedResult(r) == HasRead(r.Repo) /\ RespForbidden(ReadOf(r.Repo).gh)
NotFoundResult(r) == HasRead(r.Repo) /\ RespNotFound(ReadOf(r.Repo).gh)
\* a fetch error other than not-found and permission-denied
OtherErrorResult(r) ==
    /\ HasRead(r.Repo)
    /\ ~RespOk(ReadOf(r.Repo).gh)
    /\ ~RespNotFound(ReadOf(r.Repo).gh)
    /\ ~RespForbidden(ReadOf(r.Repo).gh)

NumDenied == CountTrue([n \in DOMAIN results |-> DeniedResult(results[n])])

NonCompliantResult(r) == ~r.Skipped /\ r.Error = "" /\ ~r.Compliant
CompliantResult(r) == ~r.Skipped /\ r.Error = "" /\ r.Compliant

\* C1: a repository whose protection read is answered 403 is recorded
\* Skipped with reason "insufficient permissions"; the audit summary counts
\* it as skipped and not as non-compliant, and a run whose other
\* repositories are all compliant or skipped exits zero.
C1_PermissionDeniedIsSkipped ==
    /\ \A k \in DOMAIN results :
          DeniedResult(results[k]) =>
              /\ results[k].Skipped
              /\ results[k].Error = "insufficient permissions"
    /\ summary.kind = "audit" =>
          /\ summary.skipped >= NumDenied
          /\ summary.nonCompliant + NumDenied
                <= summary.total
          /\ (\A k \in DOMAIN results :
                 \/ DeniedResult(results[k])
                 \/ results[k].Skipped
                 \/ CompliantResult(results[k]))
             => exitCode = 0

\* the branch C2 asks every read and update of a repository to name
ExpectedBranch(name) ==
    IF cfg.Branch = "default" THEN RemoteBranch(name) ELSE cfg.Branch

\* C2: with branch "default" every protection read and every update names
\* the repository's own default branch; with an exact branch name every
\* read and every update names that branch.
C2_BranchResolved ==
    /\ \A k \in DOMAIN reads :
          reads[k].branch = ExpectedBranch(reads[k].repo)
    /\ \A k \in DOMAIN writes :
          writes[k].branch = ExpectedBranch(writes[k].repo)

\* C3: when desired.RequireStatusChecks is true, the required_checks diff of
\* Compare passes only if the desired and the actual list hold the same set
\* of names.
C3_ChecksEqualAsSets ==
    (pc = "compared" /\ cmpDesired.RequireStatusChecks) =>
        \A k \in DOMAIN cmpDiffs :
            (cmpDiffs[k].Rule = "required_checks" /\ cmpDiffs[k].Pass) =>
                Range(cmpDesired.RequiredChecks.elems)
                    = Range(cmpActual.RequiredChecks.elems)

\* the all-false Rules with an empty, non-nil check list
UnprotectedBaseline ==
    Rules(FALSE, 0, FALSE, FALSE, FALSE, FALSE, EmptySlice,
          FALSE, FALSE, FALSE, FALSE, FALSE)

\* C4: a repository whose protection read is answered not-found is neither
\* Skipped nor Errored; its diffs are those of the policy against the
\* all-false baseline, so under a policy with enforceAdmins = true it is
\* NonCompliant with the failing diff enforce_admins want "true" got "false".
C4_NotFoundIsCompared ==
    \A k \in DOMAIN results :
        NotFoundResult(results[k]) =>
            /\ ~results[k].Skipped
            /\ results[k].Error = ""
            /\ results[k].Diffs = Compare(cfg.Rules, UnprotectedBaseline)
            /\ cfg.Rules.EnforceAdmins =>
                  /\ NonCompliantResult(results[k])
                  /\ \E d \in DOMAIN results[k].Diffs :
                        results[k].Diffs[d] =
                            [Rule |-> "enforce_admins", Pass |-> FALSE,
                             Want |-> "true", Got |-> "false"]

C4_Witness ==
    \E k \in DOMAIN results :
        /\ NotFoundResult(results[k])
        /\ cfg.Rules.EnforceAdmins
        /\ NonCompliantResult(results[k])

ExcludedName(r) == r.Repo \in exclude
NumExcluded == CountTrue([n \in DOMAIN results |-> ExcludedName(results[n])])

\* C5: a repository named in the exclude list gets the result Skipped
\* "excluded", never Compliant and never selected for an update; no
\* protection read and no update is issued for it, and the audit summary
\* counts it neither as compliant nor as non-compliant.
C5_ExcludedIsSkipped ==
    /\ \A k \in DOMAIN results :
          ExcludedName(results[k]) =>
              results[k] = [Repo |-> results[k].Repo, Compliant |-> FALSE,
                            Diffs |-> <<>>, Error |-> "excluded",
                            Skipped |-> TRUE]
    /\ \A k \in DOMAIN reads : reads[k].repo \notin exclude
    /\ \A k \in DOMAIN writes : writes[k].repo \notin exclude
    /\ \A k \in DOMAIN toUpdate : toUpdate[k].Repo \notin exclude
    /\ summary.kind = "audit" =>
          /\ summary.compliant + summary.nonCompliant
                + NumExcluded <= summary.total
          /\ summary.skipped >= NumExcluded

C5_Witness ==
    /\ summary.kind = "audit"
    /\ \E k \in DOMAIN results : ExcludedName(results[k])
    /\ \E k \in DOMAIN results : ~ExcludedName(results[k])

\* C6: audit exits non-zero iff some repository is NonCompliant or Errored,
\* where Errored is a fetch error other than not-found and
\* permission-denied.
C6_ExitCodeIffNonCompliant ==
    summary.kind = "audit" =>
        (exitCode # 0 <=>
            \E k \in DOMAIN results :
                \/ NonCompliantResult(results[k])
                \/ OtherErrorResult(results[k]))

\* C7: the pass takes the repositories one after another, whatever the
\* reads answer: the results so far are those of the first i - 1
\* repositories, in list order, and once the loop is left there is exactly
\* one result per repository.
C7_OneResultPerRepo ==
    /\ Len(results) <= Len(repos)
    /\ \A k \in DOMAIN results : results[k].Repo = repos[k].Name
    /\ pc = "audit" => i = Len(results) + 1
    /\ Len(reads) = Len(results) - NumExcluded
    /\ (\/ pc = "apply"
        \/ summary.kind \in {"audit", "apply", "dry-run", "nothing"})
          => Len(results) = Len(repos)

C7_Witness ==
    /\ summary.kind = "audit"
    /\ Len(results) >= 2
    /\ OtherErrorResult(results[1])
    /\ results[1].Error # ""

RECURSIVE NonCompliantNames(_)
NonCompliantNames(rs) ==
    IF rs = <<>> THEN <<>>
    ELSE (IF NonCompliantResult(rs[1]) THEN <<rs[1].Repo>> ELSE <<>>)
         \o NonCompliantNames(Tail(rs))

\* the payload holds every rule of the policy
PayloadCarries(payload, rules) ==
    /\ payload.enforce_admins = rules.EnforceAdmins
    /\ payload.allow_force_pushes = rules.AllowForcePushes
    /\ payload.allow_deletions = rules.AllowDeletions
    /\ payload.required_linear_history = rules.RequiredLinearHistory
    /\ payload.required_conversation_resolution
          = rules.RequiredConversationResolution
    /\ (payload.required_pull_request_reviews # Nil) = rules.RequirePullRequest
    /\ rules.RequirePullRequest =>
          payload.required_pull_request_reviews[1] =
              [required_approving_review_count |-> rules.RequiredApprovals,
               dismiss_stale_reviews |-> rules.DismissStaleReviews,
               require_code_owner_reviews |-> rules.RequireCodeOwnerReviews]
    /\ (payload.required_status_checks # Nil) = rules.RequireStatusChecks
    /\ rules.RequireStatusChecks =>
          /\ payload.required_status_checks[1].strict
                = rules.StrictStatusChecks
          /\ payload.required_status_checks[1].contexts = rules.RequiredChecks

\* C8: apply without --dry-run calls the update once for each NonCompliant
\* result (not Skipped, not Errored), in order, and for no other
\* repository; every call carries the whole rule set of the policy.
C8_UpdateOncePerNonCompliant ==
    (cmd = "apply" /\ ~dryRun) =>
        /\ \A k \in DOMAIN writes : PayloadCarries(writes[k].payload, cfg.Rules)
        /\ Len(writes) <= Len(NonCompliantNames(results))
        /\ \A k \in DOMAIN writes :
              writes[k].repo = NonCompliantNames(results)[k]
        /\ summary.kind \in {"apply", "nothing"} =>
              Len(writes) = Len(NonCompliantNames(results))

C8_Witness ==
    /\ cmd = "apply"
    /\ summary.kind = "apply"
    /\ Len(writes) >= 1
    /\ \E k \in DOMAIN results : ~NonCompliantResult(results[k])

\* C9: apply with --dry-run makes no update call, and the remote protection
\* of every repository stays what it was when the command started.
C9_DryRunNoMutation ==
    (cmd = "apply" /\ dryRun) =>
        /\ writes = <<>>
        /\ protection = protection0

C9_Witness ==
    /\ summary.kind = "dry-run"
    /\ summary.wouldUpdate >= 1

FailedWrite(w) == w.out # "ok"
OkWrite(w) == w.out = "ok"
NumFailedWrites == CountTrue([n \in DOMAIN writes |-> FailedWrite(writes[n])])
NumOkWrites == CountTrue([n \in DOMAIN writes |-> OkWrite(writes[n])])

\* C10: in apply without --dry-run a failed update is counted as failed and
\* the loop goes on: after k iterations k updates were attempted, and at the
\* end updated + failed is the number of repositories that were to be
\* updated.
C10_FailedUpdateDoesNotAbort ==
    (cmd = "apply" /\ ~dryRun) =>
        /\ updated = NumOkWrites
        /\ failed = NumFailedWrites
        /\ pc = "apply" => j = Len(writes) + 1
        /\ \A k \in DOMAIN writes : writes[k].repo = toUpdate[k].Repo
        /\ summary.kind = "apply" =>
              /\ Len(writes) = Len(toUpdate)
              /\ summary.updated + summary.failed = Len(toUpdate)
              /\ summary.failed = NumFailedWrites

C10_Witness ==
    /\ summary.kind = "apply"
    /\ Len(writes) >= 2
    /\ FailedWrite(writes[1])


ReviewRules ==
    {"required_approvals", "dismiss_stale_reviews", "require_code_owner_reviews"}

\* C11: when neither side requires pull requests, Compare returns no
\* required_approvals, dismiss_stale_reviews or require_code_owner_reviews
\* diff, whatever those sub-fields hold, and its require_pull_request diff
\* passes: the sub-fields cannot make the pair non-compliant.
C11_NoReviewDiffsWithoutPullRequest ==
    (/\ pc = "compared"
     /\ ~cmpDesired.RequirePullRequest
     /\ ~cmpActual.RequirePullRequest) =>
        \A k \in DOMAIN cmpDiffs :
            /\ cmpDiffs[k].Rule \notin ReviewRules
            /\ cmpDiffs[k].Rule = "require_pull_request" => cmpDiffs[k].Pass

C11_Witness ==
    /\ pc = "compared"
    /\ ~cmpDesired.RequirePullRequest
    /\ ~cmpActual.RequirePullRequest
    /\ cmpDesired.RequiredApprovals # cmpActual.RequiredApprovals
    /\ cmpDesired.DismissStaleReviews # cmpActual.DismissStaleReviews
    /\ cmpDesired.RequireCodeOwnerReviews # cmpActual.RequireCodeOwnerReviews
    /\ \A k \in DOMAIN cmpDiffs : cmpDiffs[k].Pass

\* the order C12 fixes for the rule names, given the desired Rules
ExpectedOrder(d) ==
    <<"require_pull_request">>
    \o (IF d.RequirePullRequest
        THEN <<"required_approvals", "dismiss_stale_reviews",
               "require_code_owner_reviews">>
        ELSE <<>>)
    \o <<"require_status_checks">>
    \o (IF d.RequireStatusChecks
        THEN <<"strict_status_checks", "required_checks">>
        ELSE <<>>)
    \o <<"enforce_admins", "allow_force_pushes", "allow_deletions",
         "required_linear_history", "required_conversation_resolution">>

\* C12: the rule names of the diffs Compare returns are, in this order,
\* require_pull_request, the three review rules if desired requires pull
\* requests, require_status_checks, the two check rules if desired requires
\* status checks, then the five remaining rules; no name occurs twice.
C12_DiffOrder ==
    pc = "compared" =>
        /\ [k \in DOMAIN cmpDiffs |-> cmpDiffs[k].Rule]
              = ExpectedOrder(cmpDesired)
        /\ \A a, b \in DOMAIN cmpDiffs :
              a # b => cmpDiffs[a].Rule # cmpDiffs[b].Rule

C12_Witness ==
    /\ pc = "compared"
    /\ cmpDesired.RequirePullRequest
    /\ cmpDesired.RequireStatusChecks
    /\ ~cmpActual.RequirePullRequest
    /\ Len(cmpDiffs) = 12


\* the remote says the repository is a fork or archived
ForkOrArchived(name) ==
    \E k \in DOMAIN listing :
        /\ listing[k].Name = name
        /\ (listing[k].Fork \/ listing[k].Archived)

NoForkTouched ==
    /\ \A k \in DOMAIN reads : ~ForkOrArchived(reads[k].repo)
    /\ \A k \in DOMAIN writes : ~ForkOrArchived(writes[k].repo)

\* C13 as stated: in every run of audit or apply, with or without --repo,
\* no protection read and no update is issued for a repository that is a
\* fork or is archived.
C13_ForksNeverTouched == NoForkTouched

\* C13, amended: in every run of audit or apply without --repo, no
\* protection read and no update is issued for a repository that is a fork
\* or is archived.
C13_ForksNeverTouchedWhenListed == repoFlag = "" => NoForkTouched

C13_Witness ==
    /\ repoFlag = ""
    /\ pc = "done"
    /\ \E k \in DOMAIN listing : ForkOrArchived(listing[k].Name)
    /\ Len(reads) >= 1
    /\ Len(results) < Len(listing)


\* C14: a Rules value with requireStatusChecks = false is sent with
\* required_status_checks null, and a response whose required_status_checks
\* is null is read as requireStatusChecks = false with an empty, non-nil
\* list of required checks.
C14_StatusChecksNullRoundTrip ==
    /\ (rtPayload # Nil /\ ~cmpDesired.RequireStatusChecks) =>
          rtPayload[1].required_status_checks = Nil
    /\ (/\ pc \in {"rt_read", "rt_done"}
        /\ rtStored[1].RequiredStatusChecks = Nil) =>
          /\ ~cmpActual.RequireStatusChecks
          /\ cmpActual.RequiredChecks = [isNil |-> FALSE, elems |-> <<>>]

C14_Witness ==
    /\ pc = "rt_read"
    /\ ~cmpDesired.RequireStatusChecks
    /\ cmpDesired.RequiredChecks.elems # <<>>
    /\ rtPayload[1].required_status_checks = Nil
    /\ rtStored[1].RequiredStatusChecks = Nil

\* C15: when the remote stores the payload of a Rules value r as sent, the
\* state read back compares against r with every diff passing, the next
\* audit classifies the repository Compliant, and the next apply selects
\* no update for it.
C15_ApplyConverges ==
    pc = "rt_done" =>
        /\ \A k \in DOMAIN cmpDiffs : cmpDiffs[k].Pass
        /\ Len(results) = 1
        /\ results[1].Compliant
        /\ ~results[1].Skipped
        /\ results[1].Error = ""
        /\ results[1].Diffs = cmpDiffs
        /\ toUpdate = <<>>

C15_Witness ==
    /\ pc = "rt_done"
    /\ cmpDesired.RequirePullRequest
    /\ cmpDesired.RequireCodeOwnerReviews
    /\ cmpDesired.RequiredApprovals > 0
    /\ cmpDesired.RequireStatusChecks
    /\ Len(cmpDesired.RequiredChecks.elems) >= 2
    /\ toUpdate = <<>>

=============================================================================
